---- MODULE Spec2Model ----
(***************************************************************************)
(* The smart-grid jQuery plugin ($.fn.grid).  The repository holds two     *)
(* versions of the plugin:                                                 *)
(*   - src/unnamed/part_000: sizes are drawn from a pool (s.sizes), pinned *)
(*     by index (s.startsWith) or re-drawn per class (s.classSizes); every *)
(*     element is put at the first empty cell, and the grid is normalised  *)
(*     around the last element before the separation lines are drawn;      *)
(*   - src/js/grid.js: every element declares its own size (data-rows,     *)
(*     data-cols) and the plugin scans for the first position it fits in.  *)
(* One call of the plugin is one run of this state machine.  The variable  *)
(* version says which of the two files is running.                         *)
(***************************************************************************)
EXTENDS Integers, Sequences, FiniteSets, TLC

(* Bounds of the explored inputs. *)
MaxCols == 3
MaxItems == 4
MaxRowSpan == 3
MaxColSpan == 2
MaxPinned == 1

(* Grid cells with no occupant: JavaScript's undefined.  It compares false *)
(* with `>= 0` and differs from every id.                                  *)
undefined == -1

(* start and end of a line run before its first frontier. *)
null == -1

(* startsWith[i] when the list has no entry for index i. *)
NoSize == <<>>

(* A size is <<rows, cols>> (size[0], size[1] in the source); a position   *)
(* is <<row, col>> (pos[X], pos[Y]).                                       *)
AllSizes == (1..MaxRowSpan) \X (1..MaxColSpan)

(* The usage example of the README and of the header comments: four       *)
(* elements with data-rows, data-cols and the call grid({'cols': 4}).      *)
ExampleCols == 4

ExampleSizes == <<<<1, 1>>, <<1, 2>>, <<1, 3>>, <<2, 1>>>>

ExampleColSpan ==
  CHOOSE m \in {ExampleSizes[k][2] : k \in 1..Len(ExampleSizes)} :
    \A k \in 1..Len(ExampleSizes) : ExampleSizes[k][2] <= m

(* Columns a row of the virtual grid may hold: a pinned size is marked     *)
(* without a width check, so a row can reach past s.cols.                  *)
Width ==
  IF MaxCols + MaxColSpan >= ExampleCols + ExampleColSpan
  THEN MaxCols + MaxColSpan - 1
  ELSE ExampleCols + ExampleColSpan - 1

VARIABLES
  version,     \* "pool" (part_000) or "scan" (js/grid.js)
  cols,        \* s.cols
  n,           \* number of elements matched by s.selector
  sizes,       \* s.sizes, as a set: getRandomSize shuffles it before use
  classSizes,  \* s.classSizes: the pool of its one key, or NoClass
  grid,        \* the virtual grid: a sequence of rows, each col -> id
  data,        \* per placed element: [id, pos, rows, cols, classes]
  startsWith,  \* s.startsWith: index -> size, NoSize where it has no entry
  declared,    \* js/grid.js: data-rows, data-cols of each element
  last,        \* posLast, rowsLast, colsLast of the normaliser
  phase,       \* the plugin's position
  vsegs,       \* vertical lines drawn: <<column, start, end>>
  hsegs,       \* horizontal lines drawn: <<row, start, end>>
  hLines,      \* js/grid.js: hLines[row][col]
  vLines       \* js/grid.js: vLines[row][col]

vars == <<version, cols, n, sizes, classSizes, startsWith, declared, grid,
          data, last, phase, vsegs, hsegs, hLines, vLines>>

(* What a call never changes: its options and the elements' attributes. *)
config == <<version, cols, n, sizes, classSizes, startsWith, declared>>

Max(a, b) == IF a >= b THEN a ELSE b
Min(a, b) == IF a <= b THEN a ELSE b

(* grid[r][c]; a column the row never had set reads undefined. *)
Cell(g, r, c) ==
  IF r >= 0 /\ r < Len(g) /\ c >= 0 /\ c < Width THEN g[r + 1][c] ELSE undefined

(***************************************************************************)
(* src/unnamed/part_000: helpers                                           *)
(***************************************************************************)

(* isAllocable(size, pos): the width check, then every cell of the         *)
(* rectangle; a row the grid does not have yet counts as free.             *)
IsAllocable(g, size, pos) ==
  /\ ~(pos[2] + size[2] - 1 >= cols)
  /\ \A r \in pos[1]..(pos[1] + size[1] - 1) :
       \A c \in pos[2]..(pos[2] + size[2] - 1) : ~(Cell(g, r, c) >= 0)

(* firstEmptySpace with the column loop running to j <= s.cols. *)
FirstEmptySpaceOneMore(g) ==
  LET empty == {p \in (0..(Len(g) - 1)) \X (0..cols) :
                  g[p[1] + 1][p[2]] = undefined}
  IN  IF empty = {} THEN <<Len(g), 0>>
      ELSE CHOOSE p \in empty :
             \A q \in empty : p[1] < q[1] \/ (p[1] = q[1] /\ p[2] <= q[2])

(* firstEmptySpace(): row-major scan of the rows the grid has, columns     *)
(* 0..s.cols-1; [grid.length, 0] when none is empty.                       *)
FirstEmptySpace(g) ==
  LET empty == {p \in (0..(Len(g) - 1)) \X (0..(cols - 1)) :
                  g[p[1] + 1][p[2]] = undefined}
  IN  IF empty = {} THEN <<Len(g), 0>>
      ELSE CHOOSE p \in empty :
             \A q \in empty : p[1] < q[1] \/ (p[1] = q[1] /\ p[2] <= q[2])

(* getRandomSize without the rule for the last element. *)
GetRandomSizeUnforced(g, pos, elementsRemaining, pool) ==
  LET fit == {s \in pool : IsAllocable(g, s, pos)}
  IN  IF fit = {} THEN {<<1, 1>>} ELSE fit

(* getRandomSize(pos, elementsRemaining, sizes): the sizes it may return.  *)
(* shuffle() can leave the pool in any order, so the first allocable entry *)
(* of the shuffled pool is any allocable entry of the pool.                *)
GetRandomSize(g, pos, elementsRemaining, pool) ==
  IF elementsRemaining = 1 THEN {<<1, 1>>}
  ELSE LET fit == {s \in pool : IsAllocable(g, s, pos)}
       IN  IF fit = {} THEN {<<1, 1>>} ELSE fit

(* The operands of || swapped: the drawn size always wins. *)
StartsWithIgnored(pinned, size) == size

(* size = s.startsWith[i] || size *)
StartsWithOverride(pinned, size) == IF pinned # NoSize THEN pinned ELSE size

(* The loop over the keys of s.classSizes, from key k on: the sizes it may *)
(* end with.  classes are the keys the element has the class of.           *)
RECURSIVE ClassSizesOverride(_, _, _, _, _, _)
ClassSizesOverride(g, pos, elementsRemaining, size, classes, k) ==
  IF k > Len(classSizes) THEN {size}
  ELSE LET sizeInClassSizes == size \in classSizes[k]
           next == IF k \in classes /\ ~sizeInClassSizes
                   THEN GetRandomSize(g, pos, elementsRemaining, classSizes[k])
                   ELSE {size}
       IN  UNION {ClassSizesOverride(g, pos, elementsRemaining, s, classes, k + 1) :
                    s \in next}

(* Mark the element position in the virtual grid: rows are created on      *)
(* demand and every cell of the rectangle is set, whatever it held.        *)
MarkElement(g, id, pos, size) ==
  [r \in 1..Max(Len(g), pos[1] + size[1]) |->
     [c \in 0..(Width - 1) |->
        IF /\ (r - 1) \in pos[1]..(pos[1] + size[1] - 1)
           /\ c \in pos[2]..(pos[2] + size[2] - 1)
        THEN id
        ELSE IF r <= Len(g) THEN g[r][c] ELSE undefined]]

(* shrinkRows($element, shrinkTo): clear the element's rows below shrinkTo *)
(* and record rows = shrinkTo - pos[X] + 1.                                *)
ShrinkRowsGrid(g, e, shrinkTo) ==
  [r \in 1..Len(g) |->
     [c \in 0..(Width - 1) |->
        IF /\ (r - 1) \in (shrinkTo + 1)..(e.pos[1] + e.rows - 1)
           /\ c \in e.pos[2]..(e.pos[2] + e.cols - 1)
        THEN undefined
        ELSE g[r][c]]]

ShrinkRowsData(e, shrinkTo) == [e EXCEPT !.rows = shrinkTo - e.pos[1] + 1]

(* isRightFrontier(x, y), isTopFrontier(x, y) *)
IsRightFrontier(g, x, y) == x < Len(g) /\ Cell(g, x, y) # Cell(g, x, y + 1)

IsTopFrontier(g, x, y) == Cell(g, x, y) # Cell(g, x + 1, y)

(* One shrink loop of the normaliser: columns i..to of row `row`, every    *)
(* element found there shrunk to end at row shrinkTo.  <<grid, data>>.     *)
RECURSIVE ShrinkLoop(_, _, _, _, _, _)
ShrinkLoop(g, d, row, shrinkTo, i, to) ==
  IF i > to THEN <<g, d>>
  ELSE IF Cell(g, row, i) >= 0
       THEN LET id == Cell(g, row, i)
                e  == d[id + 1]
            IN  ShrinkLoop(ShrinkRowsGrid(g, e, shrinkTo),
                           [d EXCEPT ![id + 1] = ShrinkRowsData(e, shrinkTo)],
                           row, shrinkTo, i + 1, to)
       ELSE ShrinkLoop(g, d, row, shrinkTo, i + 1, to)

(* allFilled: every cell right of the last element, on its first row. *)
AllFilled(g, l) ==
  \A i \in (l.pos[2] + l.cols)..(cols - 1) : Cell(g, l.pos[1], i) >= 0

(* The inner while leaving after one frontier row: no run is grouped. *)
VRunOneRow(g, y, x, start, end) ==
  IF IsRightFrontier(g, x, y) THEN <<x + 1, x, x>> ELSE <<x + 1, start, end>>

(* The vertical pass on column y.  VRun is the inner while from row x on:  *)
(* <<x, start, end>> when it leaves; VColumn is the outer while.           *)
RECURSIVE VRun(_, _, _, _, _)
VRun(g, y, x, start, end) ==
  IF IsRightFrontier(g, x, y)
  THEN VRun(g, y, x + 1, IF start = null THEN x ELSE start, x)
  ELSE <<x + 1, start, end>>

RECURSIVE VColumn(_, _, _)
VColumn(g, y, x) ==
  IF ~(x < Len(g)) THEN <<>>
  ELSE LET run == VRun(g, y, x, null, null)
       IN  IF run[2] # null /\ run[3] # null
           THEN <<<<y, run[2], run[3]>>>> \o VColumn(g, y, run[1])
           ELSE VColumn(g, y, run[1])

RECURSIVE VPass(_, _)
VPass(g, y) == IF ~(y < cols - 1) THEN <<>> ELSE VColumn(g, y, 0) \o VPass(g, y + 1)

(* The inner while without the collision test: runs are always grouped. *)
RECURSIVE HRunGrouped(_, _, _, _, _, _)
HRunGrouped(g, x, y, start, end, out) ==
  IF IsTopFrontier(g, x, y)
  THEN HRunGrouped(g, x, y + 1, IF start = null THEN y ELSE start, y, out)
  ELSE <<y + 1, start, end, out>>

(* The inner while cutting a run when either row has a vertical frontier. *)
RECURSIVE HRunCutOnOne(_, _, _, _, _, _)
HRunCutOnOne(g, x, y, start, end, out) ==
  IF IsTopFrontier(g, x, y)
  THEN IF start = null
       THEN HRunCutOnOne(g, x, y + 1, y, y, out)
       ELSE IF IsRightFrontier(g, x, y - 1) \/ IsRightFrontier(g, x + 1, y - 1)
            THEN HRunCutOnOne(g, x, y + 1, y, y, Append(out, <<x, start, end>>))
            ELSE HRunCutOnOne(g, x, y + 1, start, y, out)
  ELSE <<y + 1, start, end, out>>

(* The horizontal pass on row x.  HRun is the inner while from column y    *)
(* on: <<y, start, end, lines drawn>> when it leaves; a run that would     *)
(* collide with a vertical line is drawn and a new one started.            *)
RECURSIVE HRun(_, _, _, _, _, _)
HRun(g, x, y, start, end, out) ==
  IF IsTopFrontier(g, x, y)
  THEN IF start = null
       THEN HRun(g, x, y + 1, y, y, out)
       ELSE IF IsRightFrontier(g, x, y - 1) /\ IsRightFrontier(g, x + 1, y - 1)
            THEN HRun(g, x, y + 1, y, y, Append(out, <<x, start, end>>))
            ELSE HRun(g, x, y + 1, start, y, out)
  ELSE <<y + 1, start, end, out>>

RECURSIVE HRow(_, _, _)
HRow(g, x, y) ==
  IF ~(x < Len(g) /\ y < cols) THEN <<>>
  ELSE LET run == HRun(g, x, y, null, null, <<>>)
       IN  IF run[2] # null /\ run[3] # null
           THEN run[4] \o <<<<x, run[2], run[3]>>>> \o HRow(g, x, run[1])
           ELSE run[4] \o HRow(g, x, run[1])

RECURSIVE HPass(_, _)
HPass(g, x) == IF ~(x < Len(g) - 1) THEN <<>> ELSE HRow(g, x, 0) \o HPass(g, x + 1)

(***************************************************************************)
(* The inputs explored                                                     *)
(***************************************************************************)

(* Sizes of two columns or more: none fits at the last column. *)
WideSizes == {s \in AllSizes : s[2] >= 2}

(* The size pools tried for s.sizes and for a key of s.classSizes: the     *)
(* default, every size, every size but the default's, the wide sizes.      *)
Pools == {{<<1, 1>>}, AllSizes, AllSizes \ {<<1, 1>>}, WideSizes}

(* s.classSizes: no key, or one key with its pool. *)
ClassSizesChoices == {<<>>} \cup {<<p>> : p \in Pools}

(* s.startsWith for k elements: at most MaxPinned entries hold a size. *)
StartsWithChoices(k) ==
  {f \in [1..k -> {NoSize} \cup AllSizes] :
     Cardinality({j \in 1..k : f[j] # NoSize}) <= MaxPinned}

NoLast == [pos |-> <<0, 0>>, rows |-> 0, cols |-> 0]

InitPool ==
  /\ version = "pool"
  /\ cols \in 1..MaxCols
  /\ n \in 0..MaxItems
  /\ sizes \in Pools
  /\ classSizes \in ClassSizesChoices
  /\ startsWith \in StartsWithChoices(n)
  /\ declared = <<>>
  /\ grid = <<>>
  /\ data = <<>>
  /\ last = NoLast
  /\ phase = "pack"
  /\ vsegs = <<>>
  /\ hsegs = <<>>
  /\ hLines = {}
  /\ vLines = {}

(***************************************************************************)
(* src/unnamed/part_000: the plugin, one action per numbered step          *)
(***************************************************************************)

(* if (!$elements.length) return this; *)
ReturnEmpty ==
  /\ version = "pool" /\ phase = "pack" /\ n = 0
  /\ phase' = "done"
  /\ UNCHANGED <<config, grid, data, last, vsegs, hsegs, hLines, vLines>>

(* 1. One call of the each() callback, for element i = Len(data).  The     *)
(* classes of the element are read here and nowhere else, so they are      *)
(* drawn here and kept with the element's data.                            *)
Place ==
  /\ version = "pool" /\ phase = "pack" /\ Len(data) < n
  /\ LET i   == Len(data)
         pos == FirstEmptySpace(grid)
     IN  \E classes \in SUBSET (1..Len(classSizes)) :
         \E drawn \in GetRandomSize(grid, pos, n - i, sizes) :
         \E size \in ClassSizesOverride(grid, pos, n - i,
                       StartsWithOverride(startsWith[i + 1], drawn), classes, 1) :
           /\ grid' = MarkElement(grid, i, pos, size)
           /\ data' = Append(data, [id |-> i, pos |-> pos, rows |-> size[1],
                                    cols |-> size[2], classes |-> classes])
           /\ phase' = IF i + 1 = n THEN "shrinkLeft" ELSE "pack"
  /\ UNCHANGED <<config, last, vsegs, hsegs, hLines, vLines>>

(* Shrink the elements left of the last element that end below it. *)
ShrinkLeft ==
  /\ version = "pool" /\ phase = "shrinkLeft"
  /\ LET l == [pos |-> data[n].pos, rows |-> data[n].rows, cols |-> data[n].cols]
         below == l.pos[1] + l.rows
         res == IF below < Len(grid)
                THEN ShrinkLoop(grid, data, below, below - 1, 0, l.pos[2] - 1)
                ELSE <<grid, data>>
     IN  /\ last' = l
         /\ grid' = res[1]
         /\ data' = res[2]
  /\ phase' = "shrinkRight"
  /\ UNCHANGED <<config, vsegs, hsegs, hLines, vLines>>

(* Shrink the elements right of the last element, on its row, to the row   *)
(* above, unless the row is filled to the end.                             *)
ShrinkRight ==
  /\ version = "pool" /\ phase = "shrinkRight"
  /\ LET res == IF ~AllFilled(grid, last)
                THEN ShrinkLoop(grid, data, last.pos[1], last.pos[1] - 1,
                                last.pos[2] + last.cols, cols - 1)
                ELSE <<grid, data>>
     IN  /\ grid' = res[1]
         /\ data' = res[2]
  /\ phase' = "expand"
  /\ UNCHANGED <<config, last, vsegs, hsegs, hLines, vLines>>

(* The cells the expansion of the last element marks. *)
ExpandGrid(g, l, id) ==
  [r \in 1..Len(g) |->
     [c \in 0..(Width - 1) |->
        IF /\ (r - 1) \in l.pos[1]..(l.pos[1] + l.rows - 1)
           /\ c \in (l.pos[2] + l.cols)..(cols - 1)
        THEN id
        ELSE g[r][c]]]

(* Expand the last element to the end of grid. *)
ExpandLast ==
  /\ version = "pool" /\ phase = "expand"
  /\ IF ~AllFilled(grid, last)
     THEN /\ grid' = ExpandGrid(grid, last, data[n].id)
          /\ data' = [data EXCEPT ![n].cols = cols - last.pos[2]]
     ELSE UNCHANGED <<grid, data>>
  /\ phase' = "splice"
  /\ UNCHANGED <<config, last, vsegs, hsegs, hLines, vLines>>

(* grid.splice(start, grid.length - start): the rows kept. *)
Splice(g, start) == SubSeq(g, 1, Min(Len(g), start))

(* Remove extra grid lines. *)
RemoveExtraLines ==
  /\ version = "pool" /\ phase = "splice"
  /\ grid' = Splice(grid, last.pos[1] + last.rows)
  /\ phase' = "vlines"
  /\ UNCHANGED <<config, data, last, vsegs, hsegs, hLines, vLines>>

(* 2. Group consecutive vertical sep lines and draw them. *)
VerticalLines ==
  /\ version = "pool" /\ phase = "vlines"
  /\ vsegs' = VPass(grid, 0)
  /\ phase' = "hlines"
  /\ UNCHANGED <<config, grid, data, last, hsegs, hLines, vLines>>

(* 3. Group consecutive horizontal sep lines that do not cross vertical    *)
(* lines and draw them; 4. the grid height is set and the call returns.    *)
HorizontalLines ==
  /\ version = "pool" /\ phase = "hlines"
  /\ hsegs' = HPass(grid, 0)
  /\ phase' = "done"
  /\ UNCHANGED <<config, grid, data, last, vsegs, hLines, vLines>>

(***************************************************************************)
(* src/js/grid.js: the plugin that scans for a fitting position            *)
(***************************************************************************)

(* isAllocable(element, pos) of js/grid.js: ids start at 1 and a cell is   *)
(* taken when it holds a truthy value.                                     *)
IsAllocableScan(g, element, pos) ==
  /\ ~(pos[2] + element[2] - 1 >= cols)
  /\ \A r \in pos[1]..(pos[1] + element[1] - 1) :
       \A c \in pos[2]..(pos[2] + element[2] - 1) : ~(Cell(g, r, c) > 0)

(* The positions the while loop visits from [0, 0]: each row left to       *)
(* right up to column s.cols, then the next row.                           *)
ScanFits(g, element) ==
  {p \in (0..Len(g)) \X (0..cols) : IsAllocableScan(g, element, p)}

(* Where the loop stops: the first position visited that is allocable. *)
ScanPos(g, element) ==
  CHOOSE p \in ScanFits(g, element) :
    \A q \in ScanFits(g, element) : p[1] < q[1] \/ (p[1] = q[1] /\ p[2] <= q[2])

(* hLines[pos[X] - 1][c] = true over the element's columns, below row 0. *)
MarkHLines(h, pos, element) ==
  IF pos[1] > 0
  THEN h \cup {<<pos[1] - 1, c>> : c \in pos[2]..(pos[2] + element[2] - 1)}
  ELSE h

(* vLines[r][pos[Y] - 1] = true over the element's rows, right of col 0. *)
MarkVLines(v, pos, element) ==
  IF pos[2] > 0
  THEN v \cup {<<r, pos[2] - 1>> : r \in pos[1]..(pos[1] + element[1] - 1)}
  ELSE v

(* hLines.length, vLines.length *)
LinesLength(l) == IF l = {} THEN 0 ELSE 1 + (CHOOSE x \in {p[1] : p \in l} :
                                                \A z \in {p[1] : p \in l} : z <= x)

(* vLines[x] !== undefined, hLines[x] !== undefined *)
RowDefined(l, x) == \E p \in l : p[1] = x

RECURSIVE VRunScan(_, _, _, _, _)
VRunScan(v, y, x, start, end) ==
  IF <<x, y>> \in v
  THEN VRunScan(v, y, x + 1, IF start = null THEN x ELSE start, x)
  ELSE <<x + 1, start, end>>

RECURSIVE VColumnScan(_, _, _)
VColumnScan(v, y, x) ==
  IF ~(x < LinesLength(v)) THEN <<>>
  ELSE LET run == VRunScan(v, y, x, null, null)
       IN  IF run[2] # null /\ run[3] # null
           THEN <<<<y, run[2], run[3]>>>> \o VColumnScan(v, y, run[1])
           ELSE VColumnScan(v, y, run[1])

RECURSIVE VPassScan(_, _)
VPassScan(v, y) ==
  IF ~(y < cols - 1) THEN <<>> ELSE VColumnScan(v, y, 0) \o VPassScan(v, y + 1)

RECURSIVE HRunScan(_, _, _, _, _, _, _)
HRunScan(h, v, x, y, start, end, out) ==
  IF <<x, y>> \in h
  THEN IF start = null
       THEN HRunScan(h, v, x, y + 1, y, y, out)
       ELSE IF /\ RowDefined(v, x) /\ RowDefined(v, x + 1)
               /\ <<x, y - 1>> \in v /\ <<x + 1, y - 1>> \in v
            THEN HRunScan(h, v, x, y + 1, y, y, Append(out, <<x, start, end>>))
            ELSE HRunScan(h, v, x, y + 1, start, y, out)
  ELSE <<y + 1, start, end, out>>

RECURSIVE HRowScan(_, _, _, _)
HRowScan(h, v, x, y) ==
  IF ~(RowDefined(h, x) /\ y < cols) THEN <<>>
  ELSE LET run == HRunScan(h, v, x, y, null, null, <<>>)
       IN  IF run[2] # null /\ run[3] # null
           THEN run[4] \o <<<<x, run[2], run[3]>>>> \o HRowScan(h, v, x, run[1])
           ELSE run[4] \o HRowScan(h, v, x, run[1])

RECURSIVE HPassScan(_, _, _)
HPassScan(h, v, x) ==
  IF ~(x < LinesLength(h)) THEN <<>>
  ELSE HRowScan(h, v, x, 0) \o HPassScan(h, v, x + 1)

InitScan ==
  /\ version = "scan"
  /\ cols \in 1..MaxCols
  /\ n \in 0..MaxItems
  /\ declared \in [1..n -> AllSizes]
  /\ sizes = {}
  /\ classSizes = <<>>
  /\ startsWith = <<>>
  /\ grid = <<>>
  /\ data = <<>>
  /\ last = NoLast
  /\ phase = "pack"
  /\ vsegs = <<>>
  /\ hsegs = <<>>
  /\ hLines = {}
  /\ vLines = {}

(* 1. One call of the each() callback whose while loop ends. *)
PlaceScan ==
  /\ version = "scan" /\ phase = "pack" /\ Len(data) < n
  /\ LET id      == Len(data) + 1
         element == declared[id]
     IN  /\ ScanFits(grid, element) # {}
         /\ LET pos == ScanPos(grid, element)
            IN  /\ grid' = MarkElement(grid, id, pos, element)
                /\ hLines' = MarkHLines(hLines, pos, element)
                /\ vLines' = MarkVLines(vLines, pos, element)
                /\ data' = Append(data, [id |-> id, pos |-> pos, rows |-> element[1],
                                         cols |-> element[2], classes |-> {}])
  /\ UNCHANGED <<config, last, phase, vsegs, hsegs>>

(* The while loop of the callback when no position is allocable: it jumps  *)
(* columns and lines for ever and the call never returns.                  *)
ScanForever ==
  /\ version = "scan" /\ phase = "pack" /\ Len(data) < n
  /\ ScanFits(grid, declared[Len(data) + 1]) = {}
  /\ phase' = "scanning"
  /\ UNCHANGED <<config, grid, data, last, vsegs, hsegs, hLines, vLines>>

(* 2. Group consecutive vertical sep lines and draw them. *)
VerticalLinesScan ==
  /\ version = "scan" /\ phase = "pack" /\ Len(data) = n
  /\ vsegs' = VPassScan(vLines, 0)
  /\ phase' = "hlines"
  /\ UNCHANGED <<config, grid, data, last, hsegs, hLines, vLines>>

(* 3. Group consecutive horizontal sep lines; 4. set the grid height. *)
HorizontalLinesScan ==
  /\ version = "scan" /\ phase = "hlines"
  /\ hsegs' = HPassScan(hLines, vLines, 0)
  /\ phase' = "done"
  /\ UNCHANGED <<config, grid, data, last, vsegs, hLines, vLines>>

Init == InitPool \/ InitScan

Next ==
  \/ ReturnEmpty
  \/ Place
  \/ ShrinkLeft
  \/ ShrinkRight
  \/ ExpandLast
  \/ RemoveExtraLines
  \/ VerticalLines
  \/ HorizontalLines
  \/ PlaceScan
  \/ ScanForever
  \/ VerticalLinesScan
  \/ HorizontalLinesScan

Spec == Init /\ [][Next]_vars

(***************************************************************************)
(* Vocabulary of the properties                                            *)
(***************************************************************************)

(* The cells of an element's recorded rectangle. *)
Rect(e) ==
  (e.pos[1]..(e.pos[1] + e.rows - 1)) \X (e.pos[2]..(e.pos[2] + e.cols - 1))

(* The number of rows of the layout: the grid height is set from it. *)
totalRows == Len(grid)

(* The cells of the layout: rows 0..totalRows-1, columns 0..s.cols-1. *)
LayoutCells == (0..(totalRows - 1)) \X (0..(cols - 1))

(* Position p comes before position q in row-major order. *)
RowMajorBefore(p, q) == p[1] < q[1] \/ (p[1] = q[1] /\ p[2] < q[2])

(* No entry of s.startsWith holds a size: every size comes from a pool. *)
Unpinned == \A j \in DOMAIN startsWith : startsWith[j] = NoSize

(* Some explicit size is wider than the grid. *)
OverWide ==
  \/ \E j \in DOMAIN startsWith : startsWith[j] # NoSize /\ startsWith[j][2] > cols
  \/ version = "scan" /\ \E j \in DOMAIN declared : declared[j][2] > cols

(* The normaliser of part_000 has run: the grid is cut to its last row.    *)
(* (Without elements the call returns before it.)                          *)
Normalized == version = "pool" /\ n >= 1 /\ phase \in {"vlines", "hlines", "done"}

(***************************************************************************)
(* C1  Perfect rectangle.  For every call with s.cols >= 1, at least one   *)
(* element and no explicit size wider than the grid, whatever the shuffle  *)
(* picks from the pools: after the packing, the three passes of the        *)
(* normaliser and the cut of the grid, every cell of rows 0..totalRows-1   *)
(* and columns 0..s.cols-1 holds an id, and it is the id of the one        *)
(* element whose recorded rectangle covers the cell.                       *)
(***************************************************************************)
PerfectRectangle ==
  (Normalized /\ ~OverWide) =>
    /\ totalRows >= 1
    /\ \A p \in LayoutCells :
         /\ Cell(grid, p[1], p[2]) >= 0
         /\ {j \in 1..n : p \in Rect(data[j])} = {Cell(grid, p[1], p[2]) + 1}

(* The packing loop is running or has just ended: the recorded sizes are   *)
(* those the elements were placed with.                                    *)
Packing == phase \in {"pack", "shrinkLeft"}

(***************************************************************************)
(* C2  No overlap while packing.  After each placement, whatever the       *)
(* pools, the pinned sizes and the classes, no two elements' rectangles    *)
(* share a cell, and no placement has overwritten another element's id:    *)
(* every cell of an element's rectangle still holds its id.                *)
(***************************************************************************)
NoOverlap ==
  Packing =>
    \A j \in 1..Len(data) :
      /\ \A p \in Rect(data[j]) : Cell(grid, p[1], p[2]) = data[j].id
      /\ \A k \in 1..Len(data) : k # j => Rect(data[j]) \cap Rect(data[k]) = {}

(***************************************************************************)
(* C3  Item bounds at all times.  In every state of the packing and of     *)
(* the normaliser and after it, every placed element has rows >= 1,        *)
(* cols >= 1 and col + cols <= s.cols.                                     *)
(***************************************************************************)
ItemBounds ==
  \A j \in 1..Len(data) :
    /\ data[j].rows >= 1
    /\ data[j].cols >= 1
    /\ data[j].pos[2] + data[j].cols <= cols

(* The lines drawn, as sets. *)
VSegs == {vsegs[k] : k \in 1..Len(vsegs)}

HSegs == {hsegs[k] : k \in 1..Len(hsegs)}

(* Horizontal line h (below row h[1], columns h[2]..h[3]) runs over the    *)
(* column boundary of vertical line v (right of column v[1], rows          *)
(* v[2]..v[3]) between two rows that v joins.                              *)
Crosses(h, v) ==
  /\ h[2] <= v[1] /\ v[1] < h[3]
  /\ v[2] <= h[1] /\ h[1] < v[3]

(***************************************************************************)
(* C4  Non-crossing separators.  When the call has returned, in either     *)
(* version of the plugin, no horizontal line drawn crosses a vertical line *)
(* drawn.                                                                  *)
(***************************************************************************)
NonCrossing ==
  phase = "done" => \A h \in HSegs : \A v \in VSegs : ~Crosses(h, v)

(* A finished layout of part_000 where a run of horizontal frontiers was   *)
(* cut at a vertical line: two lines below the same row meet at the column *)
(* boundary a vertical line passes through.                                *)
NonCrossingWitness ==
  /\ version = "pool" /\ phase = "done"
  /\ \E h1 \in HSegs, h2 \in HSegs, v \in VSegs :
       /\ h1[1] = h2[1] /\ h1[3] + 1 = h2[2]
       /\ v[1] = h1[3]
       /\ v[2] <= h1[1] /\ h1[1] < v[3]

(***************************************************************************)
(* The usage example: its four elements in any order, run by js/grid.js    *)
(* (declared sizes) and by part_000, which never reads data-rows and       *)
(* data-cols: there the call is the README's own (no s.startsWith) or      *)
(* pins the declared sizes by index.                                       *)
(***************************************************************************)
ExampleOrders ==
  {o \in [1..Len(ExampleSizes) -> 1..Len(ExampleSizes)] :
     \A j \in 1..Len(ExampleSizes) : \E k \in 1..Len(ExampleSizes) : o[k] = j}

InitExample ==
  /\ version \in {"pool", "scan"}
  /\ cols = ExampleCols
  /\ n = Len(ExampleSizes)
  /\ \E o \in ExampleOrders :
       declared = [j \in 1..Len(ExampleSizes) |-> ExampleSizes[o[j]]]
  /\ IF version = "pool"
     THEN /\ sizes = {<<1, 1>>}
          /\ startsWith \in {declared, [j \in 1..n |-> NoSize]}
     ELSE /\ sizes = {}
          /\ startsWith = <<>>
  /\ classSizes = <<>>
  /\ grid = <<>>
  /\ data = <<>>
  /\ last = NoLast
  /\ phase = "pack"
  /\ vsegs = <<>>
  /\ hsegs = <<>>
  /\ hLines = {}
  /\ vLines = {}

NextExample ==
  \/ Place
  \/ ShrinkLeft
  \/ ShrinkRight
  \/ ExpandLast
  \/ RemoveExtraLines
  \/ VerticalLines
  \/ HorizontalLines
  \/ PlaceScan
  \/ VerticalLinesScan
  \/ HorizontalLinesScan

SpecExample == InitExample /\ [][NextExample]_vars

(* Element #k of the layout is at pos with size <<rows, cols>>. *)
PlacedAt(k, pos, size) ==
  /\ k <= Len(data)
  /\ data[k].pos = pos
  /\ data[k].rows = size[1]
  /\ data[k].cols = size[2]

(* The layout the README draws for its example. *)
DocumentedLayout ==
  /\ PlacedAt(1, <<0, 0>>, <<1, 1>>)
  /\ PlacedAt(2, <<0, 1>>, <<1, 2>>)
  /\ PlacedAt(4, <<0, 3>>, <<2, 1>>)
  /\ PlacedAt(3, <<1, 0>>, <<1, 3>>)
  /\ totalRows = 2

(***************************************************************************)
(* C5  Documented example.  With 4 columns and the four elements of the    *)
(* README in its order, their sizes given as the elements' declared sizes  *)
(* or pinned by index, the call ends with the layout the README draws:     *)
(* #1 at (0,0), #2 at (0,1), #4 at (0,3) over two rows, #3 at (1,0), and   *)
(* two rows in all.                                                        *)
(***************************************************************************)
ExampleLayout ==
  (/\ phase = "done" /\ cols = ExampleCols
   /\ \/ version = "scan" /\ declared = ExampleSizes
      \/ version = "pool" /\ sizes = {<<1, 1>>} /\ startsWith = ExampleSizes) =>
    DocumentedLayout

(* The size element j was placed with (while Packing). *)
PlacedSize(j) == <<data[j].rows, data[j].cols>>

(* Every class pool of element j holds size s: the loop over s.classSizes  *)
(* leaves s alone.                                                         *)
ClassesAllow(j, s) == \A k \in data[j].classes : s \in classSizes[k]

(* The class pools of element j. *)
ClassPools(j) == UNION {classSizes[k] : k \in data[j].classes}

OverWideRejected ==
  OverWide => data = <<>> /\ grid = <<>> /\ phase # "scanning"

(***************************************************************************)
(* C8 as stated: the last element is placed with its entry of              *)
(* s.startsWith when it has one, and with <<1, 1>> when it has none.       *)
(***************************************************************************)
LastItemOverride ==
  (version = "pool" /\ phase = "shrinkLeft") =>
    PlacedSize(n) = IF startsWith[n] # NoSize THEN startsWith[n] ELSE <<1, 1>>

(***************************************************************************)
(* C8 as amended: the last element is placed with <<1, 1>> whatever the    *)
(* pools hold, unless it has an entry in s.startsWith that every class     *)
(* pool of the element holds: then it is placed with that entry.  So one   *)
(* element pinned to <<2, 2>> on 2 columns, without class, ends at (0,0)   *)
(* with 2 rows and 2 columns, and the layout has 2 rows.                   *)
(***************************************************************************)
LastItemRule ==
  /\ (version = "pool" /\ phase = "shrinkLeft") =>
       PlacedSize(n) = IF startsWith[n] # NoSize /\ ClassesAllow(n, startsWith[n])
                       THEN startsWith[n]
                       ELSE <<1, 1>>
  /\ (/\ version = "pool" /\ phase = "done" /\ n = 1 /\ cols = 2
      /\ startsWith = <<<<2, 2>>>> /\ data[1].classes = {}) =>
       PlacedAt(1, <<0, 0>>, <<2, 2>>) /\ totalRows = 2

(* The example of C8 has run to its end, and so has a call whose last      *)
(* element sits beside others with a pinned size.                          *)
LastItemRuleWitness ==
  /\ version = "pool" /\ phase = "done" /\ n = 1 /\ cols = 2
  /\ startsWith = <<<<2, 2>>>> /\ data[1].classes = {}
  /\ PlacedAt(1, <<0, 0>>, <<2, 2>>)

(* The cells of the grid that hold id. *)
MarkedCells(id) ==
  {p \in (0..(Len(grid) - 1)) \X (0..(Width - 1)) : Cell(grid, p[1], p[2]) = id}

(***************************************************************************)
(* C9  Grid and records agree after normalisation.  Once the grid is cut   *)
(* to totalRows, for every element the cells marked with its id are        *)
(* exactly the cells of its recorded rectangle, so row + rows <=           *)
(* totalRows.  Stated for the calls that pin no size, where no element     *)
(* has overwritten another.                                                *)
(***************************************************************************)
RecordsAgree ==
  (Normalized /\ Unpinned) =>
    \A j \in 1..n :
      /\ MarkedCells(data[j].id) = Rect(data[j])
      /\ data[j].pos[1] + data[j].rows <= totalRows

(* The step places one more element in the call of part_000. *)
PlacesOne == version = "pool" /\ phase = "pack" /\ Len(data') = Len(data) + 1

LinesDrawn == Normalized /\ phase = "done"

(* The vertical lines drawn right of column col, by their place in vsegs. *)
VOn(col) == {k \in 1..Len(vsegs) : vsegs[k][1] = col}

(***************************************************************************)
(* C11  Vertical lines are the maximal frontier runs.  On the normalised   *)
(* grid, every vertical line drawn lies right of a column 0..s.cols-2 and  *)
(* spans rows of the grid where isRightFrontier holds at that column;      *)
(* every row where it holds is spanned by exactly one line of the column   *)
(* (so the lines of a column are disjoint); and no line of a column        *)
(* starts on the row after another one ends.                               *)
(***************************************************************************)
VerticalRuns ==
  LinesDrawn =>
    /\ \A k \in 1..Len(vsegs) :
         /\ vsegs[k][1] \in 0..(cols - 2)
         /\ 0 <= vsegs[k][2] /\ vsegs[k][2] <= vsegs[k][3]
         /\ vsegs[k][3] <= totalRows - 1
         /\ \A r \in vsegs[k][2]..vsegs[k][3] :
              IsRightFrontier(grid, r, vsegs[k][1])
    /\ \A col \in 0..(cols - 2) :
         /\ \A r \in 0..(totalRows - 1) :
              IsRightFrontier(grid, r, col) =>
                Cardinality({k \in VOn(col) :
                               vsegs[k][2] <= r /\ r <= vsegs[k][3]}) = 1
         /\ \A k1 \in VOn(col) : \A k2 \in VOn(col) :
              k1 # k2 => vsegs[k1][3] + 1 # vsegs[k2][2]

(* A line of two rows or more drawn in a call that pins no size, with a    *)
(* row above it and a row below it where the frontier fails: the run was   *)
(* grouped and was ended at both ends.                                     *)
VerticalRunsWitness ==
  /\ LinesDrawn /\ Unpinned
  /\ \E k \in 1..Len(vsegs) :
       /\ vsegs[k][2] >= 1
       /\ vsegs[k][2] < vsegs[k][3]
       /\ vsegs[k][3] < totalRows - 1
       /\ ~IsRightFrontier(grid, vsegs[k][2] - 1, vsegs[k][1])
       /\ ~IsRightFrontier(grid, vsegs[k][3] + 1, vsegs[k][1])

(* The horizontal lines drawn below row x, by their place in hsegs. *)
HOn(x) == {k \in 1..Len(hsegs) : hsegs[k][1] = x}

(* Rows x and x + 1 both have a vertical frontier right of column c - 1:   *)
(* a vertical line passes between columns c - 1 and c through the          *)
(* boundary below row x.                                                   *)
VerticalCrossing(x, c) ==
  IsRightFrontier(grid, x, c - 1) /\ IsRightFrontier(grid, x + 1, c - 1)

(***************************************************************************)
(* C12  Horizontal lines cover the frontier and are cut only at vertical   *)
(* crossings.  On the normalised grid, every horizontal line drawn lies    *)
(* below a row 0..totalRows-2 and spans only columns where isTopFrontier   *)
(* holds; every column of the grid where it holds is spanned by exactly    *)
(* one line of that row; and between two neighbouring frontier columns     *)
(* c - 1 and c a line ends if and only if rows x and x + 1 both have a     *)
(* vertical frontier between those columns.                                *)
(***************************************************************************)
HorizontalRuns ==
  LinesDrawn =>
    /\ \A k \in 1..Len(hsegs) :
         /\ hsegs[k][1] \in 0..(totalRows - 2)
         /\ 0 <= hsegs[k][2] /\ hsegs[k][2] <= hsegs[k][3]
         /\ \A c \in hsegs[k][2]..hsegs[k][3] :
              IsTopFrontier(grid, hsegs[k][1], c)
    /\ \A x \in 0..(totalRows - 2) :
         /\ \A c \in 0..(cols - 1) :
              IsTopFrontier(grid, x, c) =>
                Cardinality({k \in HOn(x) :
                               hsegs[k][2] <= c /\ c <= hsegs[k][3]}) = 1
         /\ \A c \in 1..(Width - 1) :
              (IsTopFrontier(grid, x, c - 1) /\ IsTopFrontier(grid, x, c)) =>
                ((\E k \in HOn(x) : hsegs[k][3] = c - 1) <=> VerticalCrossing(x, c))

(* A call that pins no size where a line runs on over a column boundary    *)
(* at which only one of the two rows has a vertical frontier, and ends     *)
(* before a column of the grid where isTopFrontier fails.                  *)
HorizontalRunsWitness ==
  /\ LinesDrawn /\ Unpinned
  /\ \E k \in 1..Len(hsegs) :
       /\ \E c \in (hsegs[k][2] + 1)..hsegs[k][3] :
            /\ ~VerticalCrossing(hsegs[k][1], c)
            /\ \/ IsRightFrontier(grid, hsegs[k][1], c - 1)
               \/ IsRightFrontier(grid, hsegs[k][1] + 1, c - 1)
       /\ hsegs[k][3] + 1 <= cols - 1
       /\ ~IsTopFrontier(grid, hsegs[k][1], hsegs[k][3] + 1)

====
